---- MODULE Spec2Model ----
(***************************************************************************)
(* Pyben-nio: the Match byte filter (src/src/methods/match.py), the client *)
(* worker and orchestrator (src/src/client.py) and the server send loop    *)
(* (src/src/server.py), as state machines.                                 *)
(***************************************************************************)
EXTENDS Integers, Sequences, FiniteSets, TLC

\* ---------------------------------------------------------------- bounds
MaxFileLen == 3     \* longest backing file / peer stream
MaxBuf     == 5     \* largest bufsize
MaxMpws    == 3     \* largest configured minimum per-process work size
MaxSize    == 3     \* largest size a caller passes to read()
MaxCalls   == 2     \* read() calls per filter instance
MaxCount   == 9     \* cap of the raw-byte counter
MaxRaw     == 6     \* longest raw buffer handed to the chunk partitioner
MaxTotal   == 20    \* largest transfer size handed to __allot_size
MaxNum     == 5     \* largest number of servers handed to __allot_size
MaxSrvSize == 4     \* largest transfer size of the server
MaxCliSize == 4     \* largest transfer size of the client
MaxCache   == 2     \* largest cache size of the client
MaxCliBuf  == 2     \* largest bufsize of the client
MaxCpus    == 3     \* largest number of usable cpus at construction
MaxPoolRaw == 4     \* longest raw buffer of the job-by-job pool cycle
MaxTwoRaw  == 2     \* longest raw buffer read by one of two instances
MaxTwoReads == 1    \* most read cycles of one of two instances

\* Byte values, abstracted to two; expr_func is modelled by the set of the
\* byte values it is truthy for.
Byte == {0, 1}
Funcs == SUBSET Byte
Cpus == {1, 2}

\* expr_func = lambda v: v, truthy for the non-zero byte values
DefaultFunc == {b \in Byte : b # 0}

\* the outcome of a function not applied yet
Pending == [pending |-> TRUE]

Min(a, b) == IF a < b THEN a ELSE b

\* all sequences over S with length lo..hi
SeqsOf(S, lo, hi) == UNION {[1..n -> S] : n \in lo..hi}

\* python slice s[a:b] for 0 <= a, 0 <= b (0-based, b exclusive, clamped)
Slice(s, a, b) == SubSeq(s, a + 1, Min(b, Len(s)))

IsPrefix(p, s) == Len(p) <= Len(s) /\ SubSeq(s, 1, Len(p)) = p

VARIABLES
    \* ---- one Match instance
    kind,        \* "file" (MatchIO) or "socket" (MatchSocket)
    file,        \* content of the underlying stream (file bytes / bytes the peer sends)
    expr_func,   \* the predicate (module global of match.py)
    bufsize,     \* I/O buffer size
    mpws,        \* self.kwargs['mpws']
    procs_pool,  \* TRUE iff self._procs_pool is a Pool
    pos,         \* stream position (file.tell() / bytes received from the peer)
    resbuf,      \* self._resbuf
    count,       \* raw-byte counter
    first_read,  \* MatchIO.__first_read
    pc,          \* "idle" | "reading" | "raised"
    size,        \* argument of the read() in progress / last read()
    ret,         \* what the last read() returned
    err,         \* "none" | "NoMatch" | "IndexError" | "BufferTooSmall"
    exhausted,   \* the last read() returned because recv gave 0 bytes
    out,         \* history: concatenation of everything read() returned
    ncalls,      \* number of read() calls made
    rawlog,      \* history: the bytes obtained from the stream, in order
    f_closed     \* close() was invoked on the filter

VARIABLES
    \* ---- the pure functions, applied to inputs drawn in the initial state
    a_size,      \* __allot_size: size
    a_num,       \* __allot_size: num
    a_out,       \* Pending, or the outcome of __allot_size(a_size, a_num)
    w_view,      \* a raw buffer view[:nbytes]
    w_m,         \* min_proc_worksize
    w_func,      \* the predicate
    w_offs,      \* Pending, or the outcome of _allot_work_offsets(nbytes)
    w_res,       \* Pending, or the outcome of the pool path on w_view
    i_bufsize,   \* Match.__init__: bufsize
    i_mpws,      \* Match.__init__: the configured kwargs['mpws']
    i_cpus,      \* len(os.sched_getaffinity(0))
    i_out,       \* Pending, or what Match.__init__ left
    i_chunks     \* Pending, or the partition of one full raw buffer

ivars == <<i_bufsize, i_mpws, i_cpus, i_out, i_chunks>>

VARIABLES
    \* ---- the pool path of one read cycle, job by job, on w_view
    j_in,        \* Pending, or the chunks submitted with apply_async
    j_fut,       \* future_results: per job Pending, or its result
    j_order,     \* history: the jobs in the order they completed
    j_got,       \* number of futures whose result was extended onto resbuf
    j_resbuf     \* the residual buffer

jvars == <<j_in, j_fut, j_order, j_got, j_resbuf>>

VARIABLES
    \* ---- two Match instances in one process
    g_expr_func, \* the module-level expr_func of match.py
    t_inst       \* per instance Pending, or: func (the predicate it was
                 \* constructed with), pool, child_func (expr_func in the
                 \* processes of its pool), raw (history: the raw bytes its
                 \* reads filtered), res (its residual buffer), nreads

tvars == <<g_expr_func, t_inst>>

pvars == <<a_size, a_num, a_out, w_view, w_m, w_func, w_offs, w_res, ivars,
           jvars, tvars>>

VARIABLES
    \* ---- server.py main
    s_size,      \* args_ns.size
    s_left,      \* left
    s_pc,        \* "off" | "loop" | "send" | "finished" | "failed" | "closed"
                 \* | "exited" | "NameError"
    wire,        \* history: the bytes transmitted to the client, in order
    s_zerocopy,  \* args_ns.zerocopy
    s_closed     \* client_s, sock and file_obj are closed

svars == <<s_size, s_left, s_pc, wire, s_zerocopy, s_closed>>

VARIABLES
    \* ---- client.py __do_start and its __run workers
    c_bufsize,   \* args_ns.bufsize
    c_num,       \* num_servs
    c_cap,       \* mem_limit_bs
    wk,          \* per worker: st, size, left, recvd, byte_mem, ins (history
                 \* of the bytes given to byte_mem.extend), raw (the
                 \* filter's raw-byte count), t_start, t_end
    o_pc,        \* "off" | "start" | "get" | "summary" | "raised"
    o_got,       \* number of futures whose result was collected
    total_recvd, \* total_recvd of the summary
    c_size,      \* args_ns.size
    c_cache,     \* args_ns.cache
    clock,       \* the wall clock dt.now() reads
    total_dur,   \* total_dur of the summary
    total_raw    \* total_raw_bytes_read of the summary

cvars == <<c_bufsize, c_num, c_cap, wk, o_pc, o_got, total_recvd,
           c_size, c_cache, clock, total_dur, total_raw>>

fcore == <<kind, file, expr_func, bufsize, mpws, procs_pool, pos, resbuf,
           count, first_read, pc, size, ret, err, exhausted, out, ncalls, rawlog>>

fvars == <<fcore, f_closed>>

vars == <<fvars, pvars, svars, cvars>>

\* ------------------------------------------------------------ match.py

\* a _check that appends every matching byte twice
CheckAppendsTwice(byte_arr, res, func) ==
    res \o SelectSeq(byte_arr, LAMBDA byt : byt \in func)
        \o SelectSeq(byte_arr, LAMBDA byt : byt \in func)

\* _check: append to res the bytes of byte_arr that func is truthy for
_check(byte_arr, res, func) ==
    res \o SelectSeq(byte_arr, LAMBDA byt : byt \in func)

\* Match.__init__: number of processes, int(bufsize / mpws + 0.5) capped by
\* the usable cpus
NumProcs(bs, m, cpus) ==
    LET n == (2 * bs + m) \div (2 * m)
    IN  IF n < 1 THEN 1 ELSE IF n > cpus THEN cpus ELSE n

\* Match.__init__: the mpws written back when there are too few cpus,
\* int(bufsize / (num_usable_cpus - 0.5))
EnlargedMpws(bs, cpus) == (2 * bs) \div (2 * cpus - 1)

\* a _get_and_update_res that hands out the whole residual buffer
GetAllRes(buf, sz) == [ret |-> buf, res |-> <<>>]

\* Match._get_and_update_res
_get_and_update_res(buf, sz) ==
    IF sz >= Len(buf)
    THEN [ret |-> buf, res |-> <<>>]
    ELSE [ret |-> Slice(buf, 0, sz), res |-> Slice(buf, sz, Len(buf))]

\* the loop "for idx in range(1, least_num_procs): w[idx] += w[idx - 1]"
RECURSIVE Accumulate(_, _, _)
Accumulate(w, idx, stop) ==
    IF idx >= stop THEN w
    ELSE Accumulate([w EXCEPT ![idx + 1] = w[idx + 1] + w[idx]], idx + 1, stop)

\* Match._allot_work_offsets: [ok |-> FALSE] stands for the IndexError of
\* work_offsets[-1] on an empty list
_allot_work_offsets(total_size, min_proc_worksize) ==
    LET least_num_procs == total_size \div min_proc_worksize
        work_offsets == [i \in 1..least_num_procs |-> min_proc_worksize]
        left == total_size - least_num_procs * min_proc_worksize
    IN  IF 2 * left >= min_proc_worksize
        THEN [ok |-> TRUE,
              offs |-> Accumulate(Append(work_offsets, left), 1, least_num_procs)]
        ELSE IF least_num_procs = 0
        THEN [ok |-> FALSE, offs |-> <<>>]
        ELSE [ok |-> TRUE,
              offs |-> Accumulate(
                  [work_offsets EXCEPT ![least_num_procs] = @ + left],
                  1, least_num_procs)]

\* the pool path of read: one _check job per chunk view[prev_offset:offset],
\* results extended onto res in submission order
RECURSIVE PoolExtend(_, _, _, _, _, _)
PoolExtend(view, offs, i, prev_offset, res, func) ==
    IF i > Len(offs) THEN res
    ELSE PoolExtend(view, offs, i + 1, offs[i],
                    res \o _check(Slice(view, prev_offset, offs[i]), <<>>, func),
                    func)

\* the chunks view[prev_offset:offset] handed to apply_async, in order
Chunks(view, offs) ==
    [i \in 1..Len(offs) |->
        Slice(view, IF i = 1 THEN 0 ELSE offs[i - 1], offs[i])]

\* a collection of results that takes them as the jobs complete
NextCompleted(order, got) ==
    IF got < Len(order) THEN order[got + 1] ELSE 0

\* "for f_res in future_results": the future whose result is taken next,
\* after got of them were taken
NextFuture(order, got) == got + 1

\* filtering of one raw buffer as read does it: [ok, res]
Filter(view, res, func, pool, m) ==
    IF ~pool
    THEN [ok |-> TRUE, res |-> _check(view, res, func)]
    ELSE LET wo == _allot_work_offsets(Len(view), m)
         IN  IF wo.ok
             THEN [ok |-> TRUE, res |-> PoolExtend(view, wo.offs, 1, 0, res, func)]
             ELSE [ok |-> FALSE, res |-> res]

\* ------------------------------------------------------------ client.py

\* an __allot_size whose remainder test is "i <= left"
AllotSizeOffByOne(sz, num) ==
    IF num = 0 THEN [ok |-> FALSE, p_sizes |-> <<>>]
    ELSE LET i_size == sz \div num
             left == sz - i_size * num
         IN  [ok |-> TRUE,
              p_sizes |-> [k \in 1..num |->
                             IF k - 1 <= left THEN i_size + 1 ELSE i_size]]

\* an __allot_size that answers num = 0 with an empty list
AllotSizeEmptyForZero(sz, num) ==
    IF num = 0 THEN [ok |-> TRUE, p_sizes |-> <<>>]
    ELSE LET i_size == sz \div num
             left == sz - i_size * num
         IN  [ok |-> TRUE,
              p_sizes |-> [k \in 1..num |->
                             IF k - 1 < left THEN i_size + 1 ELSE i_size]]

\* __allot_size: [ok |-> FALSE] stands for the ZeroDivisionError of size // 0
__allot_size(sz, num) ==
    IF num = 0 THEN [ok |-> FALSE, p_sizes |-> <<>>]
    ELSE LET i_size == sz \div num
             left == sz - i_size * num
         IN  [ok |-> TRUE,
              p_sizes |-> [k \in 1..num |->
                             IF k - 1 < left THEN i_size + 1 ELSE i_size]]

\* a zero-byte recv that makes read return nothing and keep the residue
ZeroRecvReturnsNothing(buf) == [ret |-> <<>>, res |-> buf]

\* a no-match test that does not look at the first-read flag
NoMatchOnEveryPass(fr, tell, res) == tell = 0 /\ res = <<>>

\* MatchIO.read: the test that raises "No matching byte": first read, the
\* stream back at offset 0, nothing in the residual buffer
NoMatchCond(fr, tell, res) == fr /\ tell = 0 /\ res = <<>>

\* IOFilter._incr_count: the raw-byte counter after num more bytes
_incr_count(c, num) == c + num

\* IOFilter._get_or_create_bufview: the length of the buffer view, one raw
\* buffer of the configured I/O buffer size
ViewLen(bs) == bs

\* MatchSocket.read, "if not nbytes": everything left in the residual buffer
OnZeroRecv(buf) == _get_and_update_res(buf, Len(buf))

\* ------------------------------------------------------- filter instance

InitFilter ==
    /\ kind \in {"file", "socket"}
    /\ file \in SeqsOf(Byte, 1, MaxFileLen)
    /\ expr_func \in Funcs
    /\ bufsize \in 1..MaxBuf
    /\ mpws \in 1..MaxMpws
    /\ \E cpus \in Cpus : procs_pool = (NumProcs(bufsize, mpws, cpus) > 1)
    /\ pos = 0
    /\ resbuf = <<>>
    /\ count = 0
    /\ first_read = TRUE
    /\ pc = "idle"
    /\ size = 0
    /\ ret = <<>>
    /\ err = "none"
    /\ exhausted = FALSE
    /\ out = <<>>
    /\ ncalls = 0
    /\ rawlog = <<>>
    /\ f_closed = FALSE

\* read() returns data and leaves rest in the residual buffer
Return(data, rest, exh) ==
    /\ ret' = data
    /\ resbuf' = rest
    /\ out' = out \o data
    /\ exhausted' = exh
    /\ pc' = "idle"
    /\ err' = "none"

Raise(e) ==
    /\ pc' = "raised"
    /\ err' = e
    /\ UNCHANGED <<ret, out, exhausted>>

\* a read(n) that enters the read loop whatever the residual buffer holds
ReadCallAlwaysLoops(n) ==
    /\ pc = "idle"
    /\ ncalls' = ncalls + 1
    /\ size' = n
    /\ pc' = "reading"
    /\ UNCHANGED <<resbuf, ret, out, exhausted, err>>
    /\ UNCHANGED <<kind, file, expr_func, bufsize, mpws, procs_pool, pos,
                   count, first_read, rawlog, f_closed>>

\* read(n) up to the loop: the residual buffer serves the request, or the
\* read loop is entered
ReadCall(n) ==
    /\ pc = "idle"
    /\ ncalls' = ncalls + 1
    /\ size' = n
    /\ IF Len(resbuf) >= n
       THEN LET r == _get_and_update_res(resbuf, n)
            IN  Return(r.ret, r.res, FALSE)
       ELSE /\ pc' = "reading"
            /\ UNCHANGED <<resbuf, ret, out, exhausted, err>>
    /\ UNCHANGED <<kind, file, expr_func, bufsize, mpws, procs_pool, pos,
                   count, first_read, rawlog, f_closed>>

\* one iteration of the loop of MatchIO.read
FileCycle ==
    /\ kind = "file"
    /\ pc = "reading"
    /\ LET nbytes == Min(Min(size, ViewLen(bufsize)), Len(file) - pos)
           view == SubSeq(file, pos + 1, pos + nbytes)
           tell == IF nbytes < size THEN 0 ELSE pos + nbytes
           f == Filter(view, resbuf, expr_func, procs_pool, mpws)
           res1 == IF nbytes > 0 THEN f.res ELSE resbuf
       IN  /\ count + nbytes <= MaxCount
           /\ pos' = tell
           /\ count' = (IF nbytes > 0 THEN _incr_count(count, nbytes) ELSE count)
           /\ rawlog' = rawlog \o view
           /\ IF nbytes > 0 /\ ~f.ok
              THEN /\ Raise("IndexError")
                   /\ UNCHANGED <<resbuf, first_read>>
              ELSE IF nbytes > 0 /\ Len(res1) >= size
              THEN /\ first_read' = FALSE
                   /\ LET r == _get_and_update_res(res1, size)
                      IN  Return(r.ret, r.res, FALSE)
              ELSE IF NoMatchCond(first_read, tell, res1)
              THEN /\ Raise("NoMatch")
                   /\ resbuf' = res1
                   /\ UNCHANGED first_read
              ELSE /\ resbuf' = res1
                   /\ UNCHANGED <<first_read, pc, ret, err, exhausted, out>>
    /\ UNCHANGED <<kind, file, expr_func, bufsize, mpws, procs_pool, size, ncalls,
                   f_closed>>

\* one iteration of the loop of MatchSocket.read; the peer sends the bytes
\* of file and then closes, recv delivers any non-empty part of what is left
SocketCycle ==
    /\ kind = "socket"
    /\ pc = "reading"
    /\ IF size > ViewLen(bufsize)
       THEN /\ Raise("BufferTooSmall")
            /\ UNCHANGED <<pos, count, resbuf, rawlog>>
       ELSE IF pos = Len(file)
       THEN /\ LET r == OnZeroRecv(resbuf)
               IN  Return(r.ret, r.res, TRUE)
            /\ UNCHANGED <<pos, count, rawlog>>
       ELSE \E nbytes \in 1..Min(size, Len(file) - pos) :
            LET view == SubSeq(file, pos + 1, pos + nbytes)
                f == Filter(view, resbuf, expr_func, procs_pool, mpws)
            IN  /\ count + nbytes <= MaxCount
                /\ pos' = pos + nbytes
                /\ count' = _incr_count(count, nbytes)
                /\ rawlog' = rawlog \o view
                /\ IF ~f.ok
                   THEN /\ Raise("IndexError")
                        /\ UNCHANGED resbuf
                   ELSE IF Len(f.res) >= size
                   THEN LET r == _get_and_update_res(f.res, size)
                        IN  Return(r.ret, r.res, FALSE)
                   ELSE /\ resbuf' = f.res
                        /\ UNCHANGED <<pc, ret, err, exhausted, out>>
    /\ UNCHANGED <<kind, file, expr_func, bufsize, mpws, procs_pool,
                   first_read, size, ncalls, f_closed>>

\* no filter instance
NoInstance ==
    /\ kind = "none"
    /\ expr_func = {}
    /\ bufsize = 1
    /\ mpws = 1
    /\ procs_pool = FALSE
    /\ pos = 0
    /\ resbuf = <<>>
    /\ count = 0
    /\ first_read = TRUE
    /\ pc = "idle"
    /\ size = 0
    /\ ret = <<>>
    /\ err = "none"
    /\ exhausted = FALSE
    /\ out = <<>>
    /\ ncalls = 0
    /\ rawlog = <<>>
    /\ f_closed = FALSE

NoFilter ==
    /\ NoInstance
    /\ file = <<>>

NoConstruct ==
    /\ i_bufsize = 1
    /\ i_mpws = 1
    /\ i_cpus = 1
    /\ i_out = Pending
    /\ i_chunks = Pending

NoPool ==
    /\ j_in = Pending
    /\ j_fut = <<>>
    /\ j_order = <<>>
    /\ j_got = 0
    /\ j_resbuf = <<>>

NoTwo ==
    /\ g_expr_func = DefaultFunc
    /\ t_inst = [i \in 1..2 |-> Pending]

NoPure ==
    /\ NoConstruct /\ NoPool /\ NoTwo
    /\ a_size = 0
    /\ a_num = 1
    /\ a_out = Pending
    /\ w_view = <<>>
    /\ w_m = 1
    /\ w_func = {}
    /\ w_offs = Pending
    /\ w_res = Pending

NoServer ==
    /\ s_size = 0
    /\ s_left = 0
    /\ s_pc = "off"
    /\ wire = <<>>
    /\ s_zerocopy = FALSE
    /\ s_closed = FALSE

NoClient ==
    /\ c_bufsize = 1
    /\ c_num = 0
    /\ c_cap = 0
    /\ wk = <<>>
    /\ o_pc = "off"
    /\ o_got = 0
    /\ total_recvd = 0
    /\ c_size = 0
    /\ c_cache = 0
    /\ clock = 0
    /\ total_dur = 0
    /\ total_raw = 0

Init == InitFilter /\ NoPure /\ NoServer /\ NoClient

\* ---------------------------------------------------------- server.py

\* main up to the send loop: the file is open, a MatchIO filter over it is
\* created unless --zerocopy is given, the client is accepted, left = size
InitServer ==
    /\ s_zerocopy \in BOOLEAN
    /\ IF s_zerocopy
       THEN NoInstance /\ file \in SeqsOf(Byte, 1, MaxFileLen)
       ELSE InitFilter /\ kind = "file"
    /\ NoPure /\ NoClient
    /\ s_size \in 1..MaxSrvSize
    /\ s_left = s_size
    /\ s_pc = "loop"
    /\ wire = <<>>
    /\ s_closed = FALSE

\* __send, first half: bytes_obj = iofilter.read(min(left, bufsize))
SrvRead ==
    /\ s_pc = "loop"
    /\ ~s_zerocopy
    /\ s_left > 0
    /\ ReadCall(Min(s_left, bufsize))
    /\ s_pc' = "send"
    /\ UNCHANGED <<s_size, s_left, wire, s_zerocopy, s_closed, pvars, cvars>>

\* the read loop of the filter, while __send waits for read to return
SrvFileCycle ==
    /\ s_pc = "send"
    /\ FileCycle
    /\ UNCHANGED <<pvars, svars, cvars>>

\* __send, second half, and "left -= num_sent": send transmits the first
\* sent bytes of bytes_obj, 1 <= sent <= len(bytes_obj)
SrvSend ==
    /\ s_pc = "send"
    /\ pc = "idle"
    /\ \E sent \in 1..Len(ret) :
         /\ wire' = wire \o SubSeq(ret, 1, sent)
         /\ s_left' = s_left - sent
    /\ s_pc' = "loop"
    /\ UNCHANGED <<s_size, s_zerocopy, s_closed, fvars, pvars, cvars>>

\* __zerosend and "left -= num_sent": sendfile transmits up to
\* bys = min(left, fsize) bytes from the file position on, which it moves;
\* bys is returned
SrvZeroSend ==
    /\ s_pc = "loop"
    /\ s_zerocopy
    /\ s_left > 0
    /\ LET bys == Min(s_left, Len(file))
           stop == Min(pos + bys, Len(file))
       IN  /\ wire' = wire \o SubSeq(file, pos + 1, stop)
           /\ pos' = stop
           /\ s_left' = s_left - bys
    /\ UNCHANGED <<s_size, s_pc, s_zerocopy, s_closed, kind, file, expr_func,
                   bufsize, mpws, procs_pool, resbuf, count, first_read, pc,
                   size, ret, err, exhausted, out, ncalls, rawlog, f_closed,
                   pvars, cvars>>

\* send raises ConnectionResetError / BrokenPipeError: caught, finally
SrvPeerClosed ==
    /\ s_pc = "send"
    /\ pc = "idle"
    /\ s_pc' = "closed"
    /\ UNCHANGED <<s_size, s_left, wire, s_zerocopy, s_closed,
                   fvars, pvars, cvars>>

\* sendfile raises ConnectionResetError / BrokenPipeError: caught,
\* left -= file_obj.tell(), finally
SrvZeroPeerClosed ==
    /\ s_pc = "loop"
    /\ s_zerocopy
    /\ s_left > 0
    /\ s_left' = s_left - pos
    /\ s_pc' = "closed"
    /\ UNCHANGED <<s_size, wire, s_zerocopy, s_closed, fvars, pvars, cvars>>

\* read raised: out of the loop, finally
SrvReadFailed ==
    /\ s_pc = "send"
    /\ pc = "raised"
    /\ s_pc' = "failed"
    /\ UNCHANGED <<s_size, s_left, wire, s_zerocopy, s_closed,
                   fvars, pvars, cvars>>

\* "while left > 0" ends: finally
SrvFinish ==
    /\ s_pc = "loop"
    /\ s_left <= 0
    /\ s_pc' = "finished"
    /\ UNCHANGED <<s_size, s_left, wire, s_zerocopy, s_closed,
                   fvars, pvars, cvars>>

\* the finally clause: total_raw_bytes = iofilter.get_count() comes first,
\* and iofilter is a local name bound only when --zerocopy is not given, so
\* with --zerocopy it raises NameError (UnboundLocalError) and the rest of
\* the clause is skipped; otherwise the summary is logged and client_s, sock
\* and file_obj are closed; close() of the filter is not called
SrvFinally ==
    /\ s_pc \in {"finished", "failed", "closed"}
    /\ IF s_zerocopy
       THEN /\ s_pc' = "NameError"
            /\ UNCHANGED s_closed
       ELSE /\ s_pc' = "exited"
            /\ s_closed' = TRUE
    /\ UNCHANGED <<s_size, s_left, wire, s_zerocopy, fvars, pvars, cvars>>

NextServer ==
    \/ SrvRead
    \/ SrvFileCycle
    \/ SrvSend
    \/ SrvZeroSend
    \/ SrvPeerClosed
    \/ SrvZeroPeerClosed
    \/ SrvReadFailed
    \/ SrvFinish
    \/ SrvFinally

SpecServer == InitServer /\ [][NextServer]_vars

\* ---------------------------------------------------------- client.py

\* the last n elements of s
LastN(s, n) == IF Len(s) <= n THEN s ELSE SubSeq(s, Len(s) - n + 1, Len(s))

\* an extend that stops taking bytes once the deque is full
ExtendKeepOldest(d, xs, maxlen) == SubSeq(d \o xs, 1, Min(Len(d \o xs), maxlen))

\* byte_mem.extend(bytes_obj) on a deque(maxlen=mem_limit_bs): each byte is
\* appended on the right, and the leftmost dropped when the deque is full
DequeExtend(d, xs, maxlen) == LastN(d \o xs, maxlen)

\* iofilter.read(num_bys) as the worker sees it: (bytes_obj, ctrl_num), at
\* most num_bys bytes and the raw bytes this call consumed
IoRead(num_bys) ==
    [data : SeqsOf(Byte, 0, num_bys), ctrl : 0..num_bys]

\* __do_start is entered with the parsed arguments
InitClient ==
    /\ NoFilter /\ NoPure /\ NoServer
    /\ c_bufsize \in 1..MaxCliBuf
    /\ c_num \in 0..2
    /\ c_cache \in 0..MaxCache
    /\ c_size \in 1..MaxCliSize
    /\ c_cap = 0
    /\ wk = <<>>
    /\ o_pc = "start"
    /\ o_got = 0
    /\ total_recvd = 0
    /\ clock = 0
    /\ total_dur = 0
    /\ total_raw = 0

\* __do_start up to the futures: sizes allotted, mem_limit_bs, one __run per
\* server; an error of __allot_size leaves __do_start at once
OrchStart ==
    /\ o_pc = "start"
    /\ LET a == __allot_size(c_size, c_num)
       IN  IF ~a.ok
           THEN /\ o_pc' = "raised"
                /\ UNCHANGED <<wk, c_cap>>
           ELSE /\ o_pc' = "get"
                /\ c_cap' = c_cache \div c_num
                /\ wk' = [i \in 1..c_num |->
                            [st |-> "pending", size |-> a.p_sizes[i],
                             left |-> 0, recvd |-> 0, byte_mem |-> <<>>,
                             ins |-> <<>>, raw |-> 0,
                             t_start |-> 0, t_end |-> 0]]
    /\ UNCHANGED <<c_bufsize, c_num, o_got, total_recvd, c_size, c_cache,
                   clock, total_dur, total_raw, fvars, pvars, svars>>

\* __run up to the loop: the socket connects, left = size, recvd = 0,
\* t_start = dt.now(); two readings of the clock differ
WorkerStart(i) ==
    /\ o_pc = "get"
    /\ wk[i].st = "pending"
    /\ wk' = [wk EXCEPT ![i].st = "running", ![i].left = wk[i].size,
                         ![i].t_start = clock]
    /\ clock' = clock + 1
    /\ UNCHANGED <<c_bufsize, c_num, c_cap, o_pc, o_got, total_recvd,
                   c_size, c_cache, total_dur, total_raw, fvars, pvars, svars>>

\* __setup_socket raises (connection refused): __run ends with the error
WorkerConnectFails(i) ==
    /\ o_pc = "get"
    /\ wk[i].st = "pending"
    /\ wk' = [wk EXCEPT ![i].st = "failed"]
    /\ UNCHANGED <<c_bufsize, c_num, c_cap, o_pc, o_got, total_recvd,
                   c_size, c_cache, clock, total_dur, total_raw,
                   fvars, pvars, svars>>

\* one iteration of "while left > 0"; a zero ctrl_num breaks out of the
\* loop, to the finally clause (t_end = dt.now()) and the return
WorkerIter(i) ==
    /\ o_pc = "get"
    /\ wk[i].st = "running"
    /\ wk[i].left > 0
    /\ \E r \in IoRead(Min(c_bufsize, wk[i].left)) :
         IF r.ctrl = 0
         THEN /\ wk' = [wk EXCEPT ![i].st = "done", ![i].t_end = clock]
              /\ clock' = clock + 1
         ELSE /\ wk' = [wk EXCEPT
                   ![i].byte_mem = IF c_cap # 0
                                   THEN DequeExtend(@, r.data, c_cap) ELSE @,
                   ![i].ins = IF c_cap # 0 THEN @ \o r.data ELSE @,
                   ![i].recvd = @ + Len(r.data),
                   ![i].raw = @ + r.ctrl,
                   ![i].left = @ - r.ctrl]
              /\ UNCHANGED clock
    /\ UNCHANGED <<c_bufsize, c_num, c_cap, o_pc, o_got, total_recvd,
                   c_size, c_cache, total_dur, total_raw, fvars, pvars, svars>>

\* iofilter.read raises in the loop: finally, and __run ends with the error
WorkerReadFails(i) ==
    /\ o_pc = "get"
    /\ wk[i].st = "running"
    /\ wk[i].left > 0
    /\ wk' = [wk EXCEPT ![i].st = "failed", ![i].t_end = clock]
    /\ clock' = clock + 1
    /\ UNCHANGED <<c_bufsize, c_num, c_cap, o_pc, o_got, total_recvd,
                   c_size, c_cache, total_dur, total_raw, fvars, pvars, svars>>

\* "while left > 0" ends: finally, and the Worker Result is returned
WorkerReturn(i) ==
    /\ o_pc = "get"
    /\ wk[i].st = "running"
    /\ wk[i].left <= 0
    /\ wk' = [wk EXCEPT ![i].st = "done", ![i].t_end = clock]
    /\ clock' = clock + 1
    /\ UNCHANGED <<c_bufsize, c_num, c_cap, o_pc, o_got, total_recvd,
                   c_size, c_cache, total_dur, total_raw, fvars, pvars, svars>>

\* multi_results = [f.get() for f in futures], one future: get returns the
\* result of a worker that returned
OrchGet ==
    /\ o_pc = "get"
    /\ o_got < c_num
    /\ wk[o_got + 1].st = "done"
    /\ o_got' = o_got + 1
    /\ UNCHANGED <<c_bufsize, c_num, c_cap, wk, o_pc, total_recvd,
                   c_size, c_cache, clock, total_dur, total_raw,
                   fvars, pvars, svars>>

\* f.get() re-raises the error of a worker that failed: the with block is
\* left, which terminates the pool and the workers still running in it, and
\* the error leaves __do_start
OrchGetRaises ==
    /\ o_pc = "get"
    /\ o_got < c_num
    /\ wk[o_got + 1].st = "failed"
    /\ o_pc' = "raised"
    /\ wk' = [i \in 1..c_num |->
                IF wk[i].st \in {"pending", "running"}
                THEN [wk[i] EXCEPT !.st = "terminated"] ELSE wk[i]]
    /\ UNCHANGED <<c_bufsize, c_num, c_cap, o_got, total_recvd,
                   c_size, c_cache, clock, total_dur, total_raw,
                   fvars, pvars, svars>>

RECURSIVE SumRecvd(_, _)
SumRecvd(w, n) == IF n = 0 THEN 0 ELSE w[n].recvd + SumRecvd(w, n - 1)

\* sum(raw_bytes_reads)
RECURSIVE SumRaw(_, _)
SumRaw(w, n) == IF n = 0 THEN 0 ELSE w[n].raw + SumRaw(w, n - 1)

\* max(t_ends), min(t_starts)
RECURSIVE MaxEnd(_, _)
MaxEnd(w, n) ==
    IF n = 1 THEN w[1].t_end
    ELSE LET m == MaxEnd(w, n - 1)
         IN  IF w[n].t_end > m THEN w[n].t_end ELSE m

RECURSIVE MinStart(_, _)
MinStart(w, n) ==
    IF n = 1 THEN w[1].t_start
    ELSE LET m == MinStart(w, n - 1)
         IN  IF w[n].t_start < m THEN w[n].t_start ELSE m

\* a total duration that adds up the workers' durations
RECURSIVE SumOfDurations(_, _)
SumOfDurations(w, n) ==
    IF n = 0 THEN 0
    ELSE (w[n].t_end - w[n].t_start) + SumOfDurations(w, n - 1)

\* total_dur = max(t_ends) - min(t_starts)
TotalDur(w, n) == MaxEnd(w, n) - MinStart(w, n)

\* every result collected: the totals and the summary line
OrchSummary ==
    /\ o_pc = "get"
    /\ o_got = c_num
    /\ total_dur' = TotalDur(wk, c_num)
    /\ total_recvd' = SumRecvd(wk, c_num)
    /\ total_raw' = SumRaw(wk, c_num)
    /\ o_pc' = "summary"
    /\ UNCHANGED <<c_bufsize, c_num, c_cap, wk, o_got, c_size, c_cache,
                   clock, fvars, pvars, svars>>

\* ---- one __run worker over a MatchSocket filter

\* iofilter.read as the worker sees it, on a filter of this model: the
\* second value is the raw bytes the call consumed, the growth of the count
\* since the worker last looked
CtrlNum(cnt, seen) == cnt - seen

\* __run up to the loop, one server: connected, the filter created over the
\* socket with args_ns.bufsize, left = size, recvd = 0
InitWorker ==
    /\ InitFilter
    /\ kind = "socket"
    /\ NoPure /\ NoServer
    /\ c_bufsize = bufsize
    /\ c_num = 1
    /\ c_cache = 0
    /\ c_cap = 0
    /\ c_size \in 1..MaxCliSize
    /\ wk = <<[st |-> "running", size |-> c_size, left |-> c_size,
               recvd |-> 0, byte_mem |-> <<>>, ins |-> <<>>, raw |-> 0,
               t_start |-> 0, t_end |-> 0]>>
    /\ o_pc = "get"
    /\ o_got = 0
    /\ total_recvd = 0
    /\ clock = 1
    /\ total_dur = 0
    /\ total_raw = 0

\* "while left > 0": iofilter.read(min(bufsize, left)) is called
WkRead ==
    /\ wk[1].st = "running"
    /\ wk[1].left > 0
    /\ ReadCall(Min(c_bufsize, wk[1].left))
    /\ wk' = [wk EXCEPT ![1].st = "reading"]
    /\ UNCHANGED <<c_bufsize, c_num, c_cap, o_pc, o_got, total_recvd, c_size,
                   c_cache, clock, total_dur, total_raw, pvars, svars>>

\* the read loop of the filter, while the worker waits for read to return
WkSocketCycle ==
    /\ wk[1].st = "reading"
    /\ SocketCycle
    /\ UNCHANGED <<pvars, svars, cvars>>

\* read has returned: "if not ctrl_num: break", else recvd and left are
\* updated and the loop goes on
WkGot ==
    /\ wk[1].st = "reading"
    /\ pc = "idle"
    /\ LET ctrl_num == CtrlNum(count, wk[1].raw)
       IN  IF ctrl_num = 0
           THEN /\ wk' = [wk EXCEPT ![1].st = "done", ![1].t_end = clock]
                /\ clock' = clock + 1
                /\ f_closed' = TRUE
           ELSE /\ wk' = [wk EXCEPT ![1].st = "running",
                                    ![1].recvd = @ + Len(ret),
                                    ![1].raw = count,
                                    ![1].left = @ - ctrl_num]
                /\ UNCHANGED <<clock, f_closed>>
    /\ UNCHANGED <<c_bufsize, c_num, c_cap, o_pc, o_got, total_recvd, c_size,
                   c_cache, total_dur, total_raw, fcore, pvars, svars>>

\* read raised: finally (iofilter.close()), and __run ends with the error
WkReadFailed ==
    /\ wk[1].st = "reading"
    /\ pc = "raised"
    /\ wk' = [wk EXCEPT ![1].st = "failed", ![1].t_end = clock]
    /\ clock' = clock + 1
    /\ f_closed' = TRUE
    /\ UNCHANGED <<c_bufsize, c_num, c_cap, o_pc, o_got, total_recvd, c_size,
                   c_cache, total_dur, total_raw, fcore, pvars, svars>>

\* "while left > 0" ends: finally (iofilter.close()), and the Worker Result
\* is returned
WkReturn ==
    /\ wk[1].st = "running"
    /\ wk[1].left <= 0
    /\ wk' = [wk EXCEPT ![1].st = "done", ![1].t_end = clock]
    /\ clock' = clock + 1
    /\ f_closed' = TRUE
    /\ UNCHANGED <<c_bufsize, c_num, c_cap, o_pc, o_got, total_recvd, c_size,
                   c_cache, total_dur, total_raw, fcore, pvars, svars>>

NextWorker ==
    \/ WkRead
    \/ WkSocketCycle
    \/ WkGot
    \/ WkReadFailed
    \/ WkReturn

SpecWorker == InitWorker /\ [][NextWorker]_vars

NextClient ==
    \/ OrchStart
    \/ \E i \in 1..c_num : WorkerStart(i)
    \/ \E i \in 1..c_num : WorkerConnectFails(i)
    \/ \E i \in 1..c_num : WorkerIter(i)
    \/ \E i \in 1..c_num : WorkerReadFails(i)
    \/ \E i \in 1..c_num : WorkerReturn(i)
    \/ OrchGet
    \/ OrchGetRaises
    \/ OrchSummary

SpecClient == InitClient /\ [][NextClient]_vars

\* ------------------------------------------- the pure functions, applied

InitAllot ==
    /\ NoFilter /\ NoServer /\ NoClient /\ NoConstruct /\ NoPool /\ NoTwo
    /\ a_size \in 0..MaxTotal
    /\ a_num \in 0..MaxNum
    /\ a_out = Pending
    /\ w_view = <<>>
    /\ w_m = 1
    /\ w_func = {}
    /\ w_offs = Pending
    /\ w_res = Pending

AllotSize ==
    /\ a_out = Pending
    /\ a_out' = __allot_size(a_size, a_num)
    /\ UNCHANGED <<a_size, a_num, w_view, w_m, w_func, w_offs, w_res, ivars,
                   jvars, tvars, fvars, svars, cvars>>

SpecAllot == InitAllot /\ [][AllotSize]_vars

InitConstruct ==
    /\ NoFilter /\ NoServer /\ NoClient /\ NoPool /\ NoTwo
    /\ a_size = 0
    /\ a_num = 1
    /\ a_out = Pending
    /\ w_view = <<>>
    /\ w_m = 1
    /\ w_func = {}
    /\ w_offs = Pending
    /\ w_res = Pending
    /\ i_bufsize \in 1..MaxBuf
    /\ i_mpws \in 1..MaxMpws
    /\ i_cpus \in 1..MaxCpus
    /\ i_out = Pending
    /\ i_chunks = Pending

\* Match.__init__: super().__init__ has taken its copy of the keyword
\* arguments; num_procs is computed, kwargs['mpws'] is rewritten when
\* num_procs exceeds the usable cpus, and the pool exists iff num_procs > 1
Construct ==
    /\ i_out = Pending
    /\ LET n0 == (2 * i_bufsize + i_mpws) \div (2 * i_mpws)
           n1 == IF n0 < 1 THEN 1 ELSE n0
       IN  i_out' = [num_procs |-> NumProcs(i_bufsize, i_mpws, i_cpus),
                     kw_mpws |-> IF n1 > i_cpus
                                 THEN EnlargedMpws(i_bufsize, i_cpus)
                                 ELSE i_mpws,
                     pool |-> NumProcs(i_bufsize, i_mpws, i_cpus) > 1]
    /\ UNCHANGED <<a_size, a_num, a_out, w_view, w_m, w_func, w_offs, w_res,
                   i_bufsize, i_mpws, i_cpus, i_chunks, jvars,
                   tvars, fvars, svars, cvars>>

\* _allot_work_offsets on a full raw buffer, with the mpws that
\* Match.__init__ computed
PartitionFull ==
    /\ i_out # Pending
    /\ i_chunks = Pending
    /\ i_chunks' = _allot_work_offsets(i_bufsize, i_out.kw_mpws)
    /\ UNCHANGED <<a_size, a_num, a_out, w_view, w_m, w_func, w_offs, w_res,
                   i_bufsize, i_mpws, i_cpus, i_out, jvars,
                   tvars, fvars, svars, cvars>>

NextConstruct == Construct \/ PartitionFull

SpecConstruct == InitConstruct /\ [][NextConstruct]_vars

InitPool ==
    /\ NoFilter /\ NoServer /\ NoClient /\ NoConstruct /\ NoPool /\ NoTwo
    /\ a_size = 0
    /\ a_num = 1
    /\ a_out = Pending
    /\ w_view \in SeqsOf(Byte, 1, MaxPoolRaw)
    /\ w_m \in 1..MaxMpws
    /\ w_func \in Funcs
    /\ w_offs = Pending
    /\ w_res = Pending

\* the first loop of the pool path: one apply_async per chunk; the
\* IndexError of _allot_work_offsets ends the cycle before any job
PoolSubmit ==
    /\ j_in = Pending
    /\ LET wo == _allot_work_offsets(Len(w_view), w_m)
       IN  IF wo.ok
           THEN /\ j_in' = [ok |-> TRUE, chunks |-> Chunks(w_view, wo.offs)]
                /\ j_fut' = [i \in 1..Len(wo.offs) |-> Pending]
           ELSE /\ j_in' = [ok |-> FALSE, chunks |-> <<>>]
                /\ UNCHANGED j_fut
    /\ UNCHANGED <<a_size, a_num, a_out, w_view, w_m, w_func, w_offs, w_res,
                   ivars, j_order, j_got, j_resbuf, tvars, fvars, svars, cvars>>

\* a pool process finishes job i, whichever it is: _check on its chunk
PoolComplete(i) ==
    /\ j_in # Pending
    /\ i \in 1..Len(j_fut)
    /\ j_fut[i] = Pending
    /\ j_fut' = [j_fut EXCEPT ![i] = [val |-> _check(j_in.chunks[i], <<>>, w_func)]]
    /\ j_order' = Append(j_order, i)
    /\ UNCHANGED <<a_size, a_num, a_out, w_view, w_m, w_func, w_offs, w_res,
                   ivars, j_in, j_got, j_resbuf, tvars, fvars, svars, cvars>>

\* the second loop, one iteration: f_res.get() waits for that future, and
\* its result is extended onto the residual buffer
PoolCollect ==
    /\ j_in # Pending
    /\ j_got < Len(j_fut)
    /\ LET idx == NextFuture(j_order, j_got)
       IN  /\ idx \in 1..Len(j_fut)
           /\ j_fut[idx] # Pending
           /\ j_resbuf' = j_resbuf \o j_fut[idx].val
    /\ j_got' = j_got + 1
    /\ UNCHANGED <<a_size, a_num, a_out, w_view, w_m, w_func, w_offs, w_res,
                   ivars, j_in, j_fut, j_order, tvars, fvars, svars, cvars>>

NextPool ==
    \/ PoolSubmit
    \/ \E i \in 1..MaxPoolRaw + 1 : PoolComplete(i)
    \/ PoolCollect

SpecPool == InitPool /\ [][NextPool]_vars

\* a process in which no Match was constructed yet
InitTwo ==
    /\ NoFilter /\ NoServer /\ NoClient /\ NoConstruct /\ NoPool
    /\ a_size = 0
    /\ a_num = 1
    /\ a_out = Pending
    /\ w_view = <<>>
    /\ w_m = 1
    /\ w_func = {}
    /\ w_offs = Pending
    /\ w_res = Pending
    /\ g_expr_func = DefaultFunc
    /\ t_inst = [i \in 1..2 |-> Pending]

\* Match.__init__ of instance i with predicate f: the module-level expr_func
\* is assigned, and the pool, if any, is started afterwards, so that its
\* processes inherit the value just assigned
TwoConstruct(i, f, pool) ==
    /\ t_inst[i] = Pending
    /\ g_expr_func' = f
    /\ t_inst' = [t_inst EXCEPT ![i] =
                    [func |-> f, pool |-> pool, child_func |-> f,
                     raw |-> <<>>, res |-> <<>>, nreads |-> 0]]
    /\ UNCHANGED <<a_size, a_num, a_out, w_view, w_m, w_func, w_offs, w_res,
                   ivars, jvars, fvars, svars, cvars>>

\* one read cycle of instance i on the raw bytes view, with mpws = 1:
\* without pool _check runs in this process and looks expr_func up when it
\* is called; with a pool it runs in the processes of the pool
TwoRead(i, view) ==
    /\ t_inst[i] # Pending
    /\ t_inst[i].nreads < MaxTwoReads
    /\ LET used == IF t_inst[i].pool THEN t_inst[i].child_func
                   ELSE g_expr_func
       IN  t_inst' = [t_inst EXCEPT
                        ![i].raw = @ \o view,
                        ![i].res = Filter(view, @, used, t_inst[i].pool, 1).res,
                        ![i].nreads = @ + 1]
    /\ UNCHANGED <<a_size, a_num, a_out, w_view, w_m, w_func, w_offs, w_res,
                   ivars, jvars, g_expr_func, fvars, svars, cvars>>

NextTwo ==
    \/ \E i \in 1..2, f \in Funcs, pool \in BOOLEAN : TwoConstruct(i, f, pool)
    \/ \E i \in 1..2, view \in SeqsOf(Byte, 1, MaxTwoRaw) : TwoRead(i, view)

SpecTwo == InitTwo /\ [][NextTwo]_vars

InitChunks ==
    /\ NoFilter /\ NoServer /\ NoClient /\ NoConstruct /\ NoPool /\ NoTwo
    /\ a_size = 0
    /\ a_num = 1
    /\ a_out = Pending
    /\ w_view \in SeqsOf(Byte, 1, MaxRaw)
    /\ w_m \in 1..MaxMpws
    /\ w_func \in Funcs
    /\ w_offs = Pending
    /\ w_res = Pending

\* work_offsets = self._allot_work_offsets(nbytes)
AllotWorkOffsets ==
    /\ w_offs = Pending
    /\ w_offs' = _allot_work_offsets(Len(w_view), w_m)
    /\ UNCHANGED <<a_size, a_num, a_out, w_view, w_m, w_func, w_res, ivars,
                   jvars, tvars, fvars, svars, cvars>>

\* the pool path of one read cycle on an empty residual buffer
PoolCycle ==
    /\ w_res = Pending
    /\ w_res' = Filter(w_view, <<>>, w_func, TRUE, w_m)
    /\ UNCHANGED <<a_size, a_num, a_out, w_view, w_m, w_func, w_offs, ivars,
                   jvars, tvars, fvars, svars, cvars>>

NextChunks == AllotWorkOffsets \/ PoolCycle

SpecChunks == InitChunks /\ [][NextChunks]_vars

\* ----------------------------------------------------------- properties

RECURSIVE Repeat(_, _)
Repeat(s, k) == IF k = 0 THEN <<>> ELSE s \o Repeat(s, k - 1)

HasMatch == \E i \in 1..Len(file) : file[i] \in expr_func

\* C2: whenever read(n) has returned, it returned exactly n bytes, or the
\* stream was exhausted (recv gave 0 bytes from a closed peer) and it
\* returned the whole remainder of the residual buffer, fewer than n bytes;
\* it never returns more than n bytes.
ReadExact ==
    (pc = "idle" /\ ncalls > 0) =>
        /\ Len(ret) <= size
        /\ \/ Len(ret) = size /\ ~exhausted
           \/ /\ exhausted
              /\ kind = "socket"
              /\ pos = Len(file)
              /\ Len(ret) < size
              /\ resbuf = <<>>

ReadExactWitness ==
    /\ pc = "idle"
    /\ ncalls >= 2
    /\ size >= 2
    /\ Len(ret) = size
    /\ Len(out) > size
    /\ count > Len(out) + Len(resbuf)

\* C5: for a file-backed filter over a file with a matching byte, everything
\* the reads returned is a prefix of the filtered image of the file repeated
\* cyclically; stated for the filters whose I/O buffer holds every request
\* (bufsize >= MaxSize), the way the server calls read.
WrapPrefix ==
    (kind = "file" /\ HasMatch /\ bufsize >= MaxSize) =>
        IsPrefix(out, _check(Repeat(file, Len(out)), <<>>, expr_func))

\* C6: for a file-backed filter over a file without a matching byte, the
\* first read(n), n >= 1, reads the file once and no further, and ends by
\* raising the no-match error without having returned a byte.
NoMatchRaises ==
    (kind = "file" /\ ~HasMatch /\ ncalls >= 1 /\ size >= 1) =>
        /\ count <= Len(file)
        /\ out = <<>>
        /\ pc # "idle"
        /\ pc = "raised" => (err = "NoMatch" /\ count = Len(file))

\* C7: when recv gives 0 bytes during a socket-backed read, the read returns
\* the whole residual buffer as it stands (fewer than n bytes), leaves it
\* empty, raises nothing and consumes nothing.
ZeroRecvReturnsResidual ==
    [][(kind = "socket" /\ pc = "reading" /\ size <= bufsize /\ pos = Len(file)) =>
         /\ pc' = "idle"
         /\ err' = "none"
         /\ ret' = resbuf
         /\ Len(ret') < size
         /\ resbuf' = <<>>
         /\ out' = out \o resbuf
         /\ pos' = pos
         /\ count' = count]_vars

ZeroRecvWitness ==
    /\ kind = "socket"
    /\ pc = "idle"
    /\ exhausted
    /\ Len(ret) >= 2
    /\ ret[1] # ret[2]
    /\ Len(ret) < size

\* a caller of the filter alone: read(n) for any n, MaxCalls times
Read(n) == ncalls < MaxCalls /\ ReadCall(n) /\ UNCHANGED <<pvars, svars, cvars>>
FileRead == FileCycle /\ UNCHANGED <<pvars, svars, cvars>>
SocketRead == SocketCycle /\ UNCHANGED <<pvars, svars, cvars>>

Next ==
    \/ \E n \in 0..MaxSize : Read(n)
    \/ FileRead
    \/ SocketRead

Spec == Init /\ [][Next]_vars

RECURSIVE SumSeq(_)
SumSeq(s) == IF s = <<>> THEN 0 ELSE Head(s) + SumSeq(Tail(s))

\* C1: the bytes the pool path of one read cycle appends to the residual
\* buffer are the bytes of the raw buffer that satisfy the predicate, in
\* order, as sequential filtering gives them.
PoolEqualsSequential ==
    w_res # Pending =>
        (w_res.ok /\ w_res.res = _check(w_view, <<>>, w_func))

\* C3: _allot_work_offsets(nbytes) returns a non-empty, strictly increasing
\* list of boundaries whose last is nbytes and whose chunks, except possibly
\* the last, have size m.
OffsetsPartition ==
    w_offs # Pending =>
        /\ w_offs.ok
        /\ LET o == w_offs.offs
               start(i) == IF i = 1 THEN 0 ELSE o[i - 1]
           IN  /\ Len(o) >= 1
               /\ \A i \in 1..Len(o) : start(i) < o[i]
               /\ o[Len(o)] = Len(w_view)
               /\ \A i \in 1..(Len(o) - 1) : o[i] - start(i) = w_m

\* C4: __allot_size(total, n), n >= 1, returns n non-negative integers that
\* sum to total, the first total mod n of them total // n + 1 and the others
\* total // n.
AllotSizeEven ==
    /\ __allot_size(0, 1).p_sizes = <<0>>
    /\ __allot_size(10, 3).p_sizes = <<4, 3, 3>>
    /\ (a_out # Pending /\ a_num >= 1) =>
        /\ a_out.ok
        /\ Len(a_out.p_sizes) = a_num
        /\ SumSeq(a_out.p_sizes) = a_size
        /\ \A k \in 1..a_num :
              /\ a_out.p_sizes[k] >= 0
              /\ a_out.p_sizes[k] =
                    (a_size \div a_num) + (IF k <= a_size % a_num THEN 1 ELSE 0)

AllotSizeWitness ==
    /\ a_out # Pending
    /\ a_num >= 3
    /\ a_size % a_num = 2
    /\ a_out.p_sizes[2] = a_out.p_sizes[3] + 1

\* C10, on the single-process path: over a file with a matching byte,
\* the bytes transmitted to the client are a prefix of the filtered image of
\* the file repeated cyclically, whatever send transmits, and when the loop
\* ends normally exactly size bytes have been transmitted.
WireIsStreamPrefix ==
    (s_pc # "off" /\ ~s_zerocopy /\ ~procs_pool /\ HasMatch) =>
        /\ IsPrefix(wire, _check(Repeat(file, Len(wire)), <<>>, expr_func))
        /\ s_pc = "finished" => Len(wire) = s_size

\* what C10 says of the length alone
WireLength ==
    (s_pc # "off" /\ ~s_zerocopy) =>
        /\ Len(wire) = s_size - s_left
        /\ s_left >= 0
        /\ s_pc = "finished" => Len(wire) = s_size

\* C8: with a non-zero capacity C, byte_mem never holds more than C bytes,
\* it holds the last C of the bytes inserted once C or more were inserted
\* (all of them before), in insertion order, and recvd is the number of
\* bytes received whatever the cache holds.
CacheKeepsLast ==
    \A i \in 1..c_num :
        c_cap # 0 =>
            /\ Len(wk[i].byte_mem) <= c_cap
            /\ Len(wk[i].ins) >= c_cap =>
                 wk[i].byte_mem =
                   SubSeq(wk[i].ins, Len(wk[i].ins) - c_cap + 1, Len(wk[i].ins))
            /\ Len(wk[i].ins) < c_cap => wk[i].byte_mem = wk[i].ins
            /\ wk[i].recvd = Len(wk[i].ins)

CacheWitness ==
    \E i \in 1..c_num :
        /\ c_cap = 2
        /\ Len(wk[i].ins) = 4
        /\ wk[i].ins[2] # wk[i].ins[3]
        /\ wk[i].ins[3] # wk[i].ins[4]
        /\ wk[i].byte_mem = <<wk[i].ins[3], wk[i].ins[4]>>

\* C9: once __do_start is over with one worker failed and the others
\* returned, it has produced the summary with the bytes of the workers that
\* returned.
SummaryDespiteFailure ==
    (/\ o_pc \in {"summary", "raised"}
     /\ c_num >= 2
     /\ \E i \in 1..c_num :
          /\ wk[i].st = "failed"
          /\ \A j \in 1..c_num : j # i => (wk[j].st = "done" /\ wk[j].recvd > 0)) =>
        /\ o_pc = "summary"
        /\ total_recvd = SumRecvd(wk, c_num)

\* C11: in the summary, total_recvd is the sum of the workers' recvd,
\* total_raw the sum of their raw counts, and total_dur the latest t_end
\* minus the earliest t_start.
SummaryTotals ==
    o_pc = "summary" =>
        /\ \A i \in 1..c_num : wk[i].st = "done"
        /\ total_recvd = SumSeq([i \in 1..c_num |-> wk[i].recvd])
        /\ total_raw = SumSeq([i \in 1..c_num |-> wk[i].raw])
        /\ \E i, j \in 1..c_num :
              /\ \A k \in 1..c_num : wk[k].t_end <= wk[i].t_end
              /\ \A k \in 1..c_num : wk[j].t_start <= wk[k].t_start
              /\ total_dur = wk[i].t_end - wk[j].t_start

SummaryTotalsWitness ==
    /\ o_pc = "summary"
    /\ c_num = 2
    /\ wk[1].recvd > 0 /\ wk[2].recvd > 0
    /\ total_raw > total_recvd
    /\ wk[2].t_start < wk[1].t_end
    /\ total_dur # (wk[1].t_end - wk[1].t_start) + (wk[2].t_end - wk[2].t_start)

\* C14: with no server address, __allot_size fails and gives no sizes:
\* __do_start ends with the error, no worker exists and nothing is summed.
NoServersFails ==
    /\ ~__allot_size(c_size, 0).ok
    /\ (c_num = 0 /\ o_pc # "start") =>
          /\ o_pc = "raised"
          /\ wk = <<>>
          /\ total_recvd = 0 /\ total_raw = 0 /\ total_dur = 0

NoServersWitness ==
    /\ c_num = 0
    /\ o_pc = "raised"
    /\ c_size > 0

\* C12: with k = nbytes div m and r = nbytes - k * m, _allot_work_offsets
\* gives k + 1 chunks whose last has size r when r >= m / 2, and otherwise k
\* chunks whose last has size m + r; so also when nbytes < m (k = 0).
ChunkCountRule ==
    w_offs # Pending =>
        LET k == Len(w_view) \div w_m
            r == Len(w_view) - k * w_m
            o == w_offs.offs
            last == o[Len(o)] - (IF Len(o) = 1 THEN 0 ELSE o[Len(o) - 1])
        IN  /\ w_offs.ok
            /\ IF 2 * r >= w_m
               THEN Len(o) = k + 1 /\ last = r
               ELSE Len(o) = k /\ last = w_m + r

\* C13: the raw-byte counter never decreases, equals the number of bytes
\* obtained from the stream since the filter was created, and is at least
\* the number of bytes returned plus the length of the residual buffer.
CountIsRawTotal ==
    /\ [](kind # "none" =>
            /\ count = Len(rawlog)
            /\ count >= Len(out) + Len(resbuf))
    /\ [][count' >= count]_vars

CountWitness ==
    /\ kind = "file"
    /\ ncalls = 2
    /\ pc = "idle"
    /\ count > Len(file)
    /\ Len(out) > 0
    /\ resbuf # <<>>
    /\ count > Len(out) + Len(resbuf)

\* C18: whatever was returned so far, followed by the residual buffer, is
\* the filtered image, in stream order, of the raw bytes consumed so far.
ReturnedIsFilteredImage ==
    (kind # "none" /\ pc # "raised") =>
        out \o resbuf = _check(rawlog, <<>>, expr_func)

\* C18 on the single-process path
ReturnedIsFilteredImageSingle ==
    (kind # "none" /\ ~procs_pool) =>
        out \o resbuf = _check(rawlog, <<>>, expr_func)

\* C15: Match.__init__ leaves a number of processes between 1 and the
\* usable cpus; and when round(bufsize / mpws) exceeds the cpus, the mpws it
\* writes back is at least the configured one and partitions a full raw
\* buffer of bufsize bytes into at most as many chunks as there are cpus.
PoolWithinCpus ==
    /\ i_out # Pending =>
          /\ i_out.num_procs >= 1
          /\ i_out.num_procs <= i_cpus
    /\ (i_chunks # Pending
          /\ (2 * i_bufsize + i_mpws) \div (2 * i_mpws) > i_cpus) =>
          /\ i_out.kw_mpws >= i_mpws
          /\ i_chunks.ok
          /\ Len(i_chunks.offs) <= i_cpus

\* C15, the first half alone
NumProcsWithinCpus ==
    i_out # Pending =>
        /\ i_out.num_procs >= 1
        /\ i_out.num_procs <= i_cpus
        /\ i_out.kw_mpws >= i_mpws

\* C16: with --zerocopy the server goes through the transfer, the final
\* report and the closing of the sockets and the file without any filter:
\* it never fails for want of one, and ends with everything closed.
ZeroCopyNeedsNoFilter ==
    s_zerocopy =>
        /\ kind = "none"
        /\ s_pc # "NameError"
        /\ s_pc \notin {"loop", "send", "finished", "failed", "closed"}
              => s_closed

\* C16 for the transfer loop alone
ZeroCopyLoopNeedsNoFilter ==
    (s_zerocopy /\ s_pc \in {"loop", "finished", "closed"}) =>
        /\ kind = "none"
        /\ count = 0 /\ ncalls = 0

RECURSIVE ConcatChecked(_, _, _)
ConcatChecked(chunks, n, func) ==
    IF n = 0 THEN <<>>
    ELSE ConcatChecked(chunks, n - 1, func) \o _check(chunks[n], <<>>, func)

\* C17: in one read cycle on the pool path, whatever the order in which the
\* jobs complete, the residual buffer holds the filtered chunks in the order
\* the jobs were submitted; in the end it is what the two loops give when
\* every job has completed at once.
SubmissionOrder ==
    (j_in # Pending /\ j_in.ok) =>
        /\ j_resbuf = ConcatChecked(j_in.chunks, j_got, w_func)
        /\ j_got = Len(j_fut) =>
              j_resbuf = Filter(w_view, <<>>, w_func, TRUE, w_m).res

SubmissionOrderWitness ==
    /\ j_in # Pending
    /\ Len(j_fut) = 2
    /\ j_order = <<2, 1>>
    /\ j_got = 2
    /\ j_resbuf = <<0, 1>>

\* C19: over a file with a matching byte, a read(n), n >= 1, of a
\* file-backed filter does not end in an error, and when it has returned it
\* has returned n bytes; stated for the filters whose I/O buffer holds every
\* request (bufsize >= MaxSize).
FileReadReturnsN ==
    (kind = "file" /\ HasMatch /\ bufsize >= MaxSize /\ ncalls >= 1 /\ size >= 1) =>
        /\ pc # "raised"
        /\ pc = "idle" => Len(ret) = size

\* C19 on the single-process path
FileReadReturnsNSingle ==
    (kind = "file" /\ HasMatch /\ bufsize >= MaxSize /\ ~procs_pool
        /\ ncalls >= 1 /\ size >= 1) =>
        /\ pc # "raised"
        /\ pc = "idle" => Len(ret) = size

\* C20: a file-backed read raises the no-match error only after a pass over
\* the whole file, and never over a file that holds a matching byte; stated
\* for the filters whose I/O buffer holds every request (bufsize >= MaxSize).
NoMatchOnlyWithoutMatch ==
    (kind = "file" /\ bufsize >= MaxSize /\ err = "NoMatch") =>
        /\ count >= Len(file)
        /\ ~HasMatch

\* C20 on the single-process path
NoMatchOnlyWithoutMatchSingle ==
    (kind = "file" /\ bufsize >= MaxSize /\ ~procs_pool /\ err = "NoMatch") =>
        /\ count >= Len(file)
        /\ ~HasMatch

\* C21: once a read of a file-backed filter has returned through the read
\* loop (first_read is cleared, and stays so), no read raises the no-match
\* error; a cycle whose filtering went through and that ends at offset 0
\* with nothing returned and an empty residual buffer goes round the loop
\* again.
NoMatchOnlyOnFirstRead ==
    /\ [](kind = "file" /\ ~first_read => err # "NoMatch")
    /\ [][(kind = "file" /\ ~first_read) =>
            /\ ~first_read'
            /\ err' # "NoMatch"
            /\ (pc = "reading" /\ pos' = 0 /\ resbuf' = <<>> /\ out' = out
                  /\ err' # "IndexError") => pc' = "reading"]_vars

NoMatchOnlyOnFirstReadWitness ==
    /\ kind = "file"
    /\ ~first_read
    /\ Len(out) > 0
    /\ ncalls = 2
    /\ pc = "reading"
    /\ pos = 0
    /\ resbuf = <<>>
    /\ count > Len(file)

\* C22: when a worker has failed, no other worker is terminated: each of
\* the others is still to start, in its receive loop, or has left the loop
\* by itself.
SiblingsUnaffected ==
    \A i \in DOMAIN wk :
        wk[i].st = "failed" =>
            \A j \in DOMAIN wk \ {i} : wk[j].st # "terminated"

RecvdWithinSize ==
    (kind = "socket" /\ wk # <<>>) => wk[1].recvd <= wk[1].size

\* C24: when a transfer loop over a filter instance is over, in the server
\* or in a client worker, close() was invoked on the filter.
FilterClosedAtEnd ==
    kind # "none" =>
        /\ s_pc = "exited" => f_closed
        /\ (wk # <<>> /\ wk[1].st \in {"done", "failed"}) => f_closed

\* C24 for the client worker
WorkerClosesFilter ==
    (kind # "none" /\ wk # <<>> /\ wk[1].st \in {"done", "failed"}) => f_closed

\* C24 for the streams of the server
ServerClosesStreams ==
    s_pc = "exited" => s_closed

\* C25: a read(n) called while the residual buffer holds at least n bytes
\* returns at once with the first n bytes of it and leaves the rest in it;
\* the raw-byte count, the stream position and the bytes obtained from the
\* stream are unchanged, and the read loop (and so the pool) is not entered.
ServedFromResidual ==
    [][(kind # "none" /\ pc = "idle" /\ ncalls' = ncalls + 1
          /\ Len(resbuf) >= size') =>
         /\ pc' = "idle"
         /\ err' = "none"
         /\ ret' = SubSeq(resbuf, 1, size')
         /\ resbuf' = SubSeq(resbuf, size' + 1, Len(resbuf))
         /\ out' = out \o SubSeq(resbuf, 1, size')
         /\ count' = count
         /\ pos' = pos
         /\ rawlog' = rawlog
         /\ first_read' = first_read]_vars

\* a second call, read(1), over a 2-byte file whose first call, read(3),
\* consumed 4 raw bytes and returned 3 of the 4 it kept
ServedFromResidualWitness ==
    /\ kind = "file"
    /\ Len(file) = 2
    /\ bufsize >= 2
    /\ ~procs_pool
    /\ ncalls = 2
    /\ pc = "idle"
    /\ size = 1
    /\ Len(ret) = 1
    /\ count = 4
    /\ Len(out) = 4
    /\ resbuf = <<>>

\* C26: of two Match instances of one process, each filters every raw
\* buffer it reads with the predicate it was constructed with: its residual
\* buffer is the image of its raw bytes under its own predicate.
OwnPredicate ==
    \A i \in 1..2 :
        t_inst[i] # Pending =>
            t_inst[i].res = _check(t_inst[i].raw, <<>>, t_inst[i].func)

\* C26 on the pool path
OwnPredicatePool ==
    \A i \in 1..2 :
        (t_inst[i] # Pending /\ t_inst[i].pool) =>
            t_inst[i].res = _check(t_inst[i].raw, <<>>, t_inst[i].func)

\* C26 for a single instance
OwnPredicateAlone ==
    \A i \in 1..2 :
        (t_inst[i] # Pending /\ t_inst[3 - i] = Pending) =>
            t_inst[i].res = _check(t_inst[i].raw, <<>>, t_inst[i].func)

====
